---- MODULE Spec2Model ----
(***************************************************************************)
(* A model of packages/react-form-validity/index.ts:                       *)
(*   - useFormValidity: the touch/submit gate (handleBlur, handleChange,   *)
(*     handleSubmit) in front of the constraint registry;                  *)
(*   - useFieldset: the invalid notification that surfaces a control's     *)
(*     message into the error mapping;                                     *)
(*   - useFieldsetControl: the key sequence of a dynamic list, its add and *)
(*     delete buttons and the reconciliation with the options array.       *)
(* Strings that the code slices or concatenates (names) are sequences of   *)
(* one-character strings; JavaScript arrays are sequences, so the array    *)
(* index i is the sequence index i + 1.                                    *)
(***************************************************************************)
EXTENDS Integers, Sequences, FiniteSets, TLC

\* ------------------------------------------------------------------ bounds
\* Largest length of the options array handed to useFieldsetControl.
MaxOptions == 2
\* Largest length the key sequence may grow to by clicks on the add button.
MaxKeys == 3
\* Number of distinct clock readings after the first one.
MaxTicks == 1
\* The longest field key.
MaxKeyLen == 3

\* ------------------------------------------------------- JavaScript strings
\* String.prototype.lastIndexOf for a one-character needle: 0-based, -1 when absent.
LastIndexOf(s, c) ==
    LET hits == {i \in 1..Len(s) : s[i] = c}
    IN  IF hits = {} THEN -1 ELSE (CHOOSE i \in hits : \A j \in hits : j <= i) - 1

\* String.prototype.slice(start, end): negative arguments count from the end.
Slice(s, start, end) ==
    LET n    == Len(s)
        from == IF start < 0 THEN (IF n + start < 0 THEN 0 ELSE n + start)
                ELSE (IF start > n THEN n ELSE start)
        to   == IF end < 0 THEN (IF n + end < 0 THEN 0 ELSE n + end)
                ELSE (IF end > n THEN n ELSE end)
    IN  IF from >= to THEN <<>> ELSE SubSeq(s, from + 1, to)

\* String.prototype.slice(start): to the end of the string.
SliceFrom(s, start) == Slice(s, start, Len(s))

DigitChar(d) ==
    CASE d = 0 -> "0" [] d = 1 -> "1" [] d = 2 -> "2" [] d = 3 -> "3" [] d = 4 -> "4"
      [] d = 5 -> "5" [] d = 6 -> "6" [] d = 7 -> "7" [] d = 8 -> "8" [] d = 9 -> "9"

\* The decimal text of a non-negative number, as template literals produce it.
RECURSIVE NumberToString(_)
NumberToString(n) ==
    IF n < 10 THEN <<DigitChar(n)>>
    ELSE NumberToString(n \div 10) \o <<DigitChar(n % 10)>>

\* `${name}[${index}]`
IndexedName(name, index) == name \o <<"[">> \o NumberToString(index) \o <<"]">>

\* [...Array(n).keys()]
ArrayKeys(n) == [i \in 1..n |-> i - 1]

\* -------------------------------------------------------------- the fieldset
\* The name option of the fieldset the controls belong to, and its field keys.
FieldsetName == <<"p">>
Keys == {<<"a">>, <<"b">>}

\* getFieldProps: const name = options.name ? `${options.name}.${options.key}` : options.key
FieldName(name, key) == IF name # <<>> THEN name \o <<".">> \o key ELSE key

\* The rendered controls of the fieldset, by name, and their document order.
Controls == {FieldName(FieldsetName, k) : k \in Keys}
DocumentOrder == <<FieldName(FieldsetName, <<"a">>), FieldName(FieldsetName, <<"b">>)>>

\* getKey: element.name.slice(element.name.lastIndexOf('.') + 1)
getKey(name) == SliceFrom(name, LastIndexOf(name, ".") + 1)

\* A missing value (undefined / null) of the source.
Undefined == "undefined"

\* getFieldConfig(field): the configuration of a Field description. The
\* e-mail inputs have no messages of their own, the required text input has
\* one for `required`.
getFieldConfig(field) ==
    CASE field = "email, required" ->
             [required |-> TRUE, type |-> "email",
              message |-> [valueMissing |-> Undefined, typeMismatch |-> Undefined]]
      [] field = "email" ->
             [required |-> FALSE, type |-> "email",
              message |-> [valueMissing |-> Undefined, typeMismatch |-> Undefined]]
      [] field = "text, required" ->
             [required |-> TRUE, type |-> "text",
              message |-> [valueMissing |-> "b is required", typeMismatch |-> Undefined]]
      [] field = "text" ->
             [required |-> FALSE, type |-> "text",
              message |-> [valueMissing |-> Undefined, typeMismatch |-> Undefined]]

\* The fieldset objects the caller passes to useFieldset: one that requires
\* both fields and one that requires neither.
StrictFieldset == [k \in Keys |-> IF k = <<"a">> THEN "email, required" ELSE "text, required"]
LenientFieldset == [k \in Keys |-> IF k = <<"a">> THEN "email" ELSE "text"]
Fieldsets == {StrictFieldset, LenientFieldset}

\* What a user can type into a control: nothing, a text that is no e-mail
\* address, an e-mail address.
Values == {"", "not-an-email", "a@b.com"}
\* What setCustomValidity is called with: nothing, or the sentinel.
CustomMessages == {"", "valid"}

\* ------------------------------------------------ the platform's validity
\* element.validity: the native flags of a control holding value v with the
\* custom message c, under the constraint attributes of its configuration.
Validity(v, c, config) ==
    [valueMissing |-> config.required /\ v = "",
     typeMismatch |-> config.type = "email" /\ v = "not-an-email",
     customError  |-> c # ""]

Valid(validity) ==
    ~validity.valueMissing /\ ~validity.typeMismatch /\ ~validity.customError

\* element.validationMessage: the custom message when one is set, else the
\* platform's text for the violated constraint, else the empty string.
ValidationMessage(v, c, config) ==
    LET validity == Validity(v, c, config)
    IN  IF validity.customError THEN c
        ELSE IF validity.valueMissing THEN "Please fill out this field."
        ELSE IF validity.typeMismatch THEN "Please enter an email address."
        ELSE ""

\* checkCustomValidity(validity, config): the configured message of the first
\* violated constraint in priority order, when the configuration has one.
checkCustomValidity(validity, config) ==
    IF validity.valueMissing THEN config.message.valueMissing
    ELSE IF validity.typeMismatch THEN config.message.typeMismatch
    ELSE IF validity.customError THEN Undefined
    ELSE ""

\* -------------------------------------------------------------------- state
VARIABLES
    submitted,      \* useFormValidity: ref.current.submitted
    touched,        \* useFormValidity: the names n with ref.current.touched[n] = true
    value,          \* the value of each control, by name
    custom,         \* the custom validity message of each control, by name
    errorMessage,   \* useFieldset: the errorMessage state, by field key
    fieldset,       \* useFieldset: ref.current.fieldset
    noBrowserValidate, \* useFormValidity: the noBrowserValidate state
    keys,           \* useFieldsetControl: the keys state
    options,        \* useFieldsetControl: the names of the options array
    ev              \* the last event handled and what its handler did

vars == <<submitted, touched, value, custom, errorMessage, fieldset, noBrowserValidate,
          keys, options, ev>>

\* The form element as the target of registry.checkValidity.
Form == <<"<form>">>

\* What a handler did: the registry targets it checked, the controls whose
\* custom validity was reset to '' on the way, whether it called
\* event.preventDefault(), whether it called the caller's onSubmit.
Event(op, target, checked, reset, prevented, called) ==
    [op |-> op, target |-> target, checked |-> checked, reset |-> reset,
     prevented |-> prevented, onSubmit |-> called]

\* A pure function applied to arguments, and what it returned.
Call(op, args, result) == [op |-> op, target |-> args, result |-> result]

\* ------------------------------------------------- useFieldset: onInvalid
\* A notification that leaves the stored message alone when the control has
\* no violation.
onInvalid_keepsWhenValid(st, el) ==
    LET key     == getKey(el)
        config  == getFieldConfig(st.fieldset[key])
        cleared == IF ValidationMessage(st.value[el], st.custom[el], config) = "valid"
                   THEN "" ELSE st.custom[el]
        synth   == checkCustomValidity(Validity(st.value[el], cleared, config), config)
        message == IF synth # Undefined THEN synth
                   ELSE ValidationMessage(st.value[el], cleared, config)
    IN  IF key \notin DOMAIN st.fieldset THEN st
        ELSE [st EXCEPT !.custom[el] = cleared,
                        !.error = IF message = "" THEN st.error
                                  ELSE [st.error EXCEPT ![key] = message]]

\* A notification that synthesizes the message before it resets the sentinel.
onInvalid_synthesizesFirst(st, el) ==
    LET key     == getKey(el)
        config  == getFieldConfig(st.fieldset[key])
        cleared == IF ValidationMessage(st.value[el], st.custom[el], config) = "valid"
                   THEN "" ELSE st.custom[el]
        synth   == checkCustomValidity(Validity(st.value[el], st.custom[el], config), config)
        message == IF synth # Undefined THEN synth
                   ELSE ValidationMessage(st.value[el], st.custom[el], config)
    IN  IF key \notin DOMAIN st.fieldset THEN st
        ELSE [st EXCEPT !.custom[el] = cleared,
                        !.error = IF st.error[key] = message THEN st.error
                                  ELSE [st.error EXCEPT ![key] = message]]

\* A notification that never resets the sentinel.
onInvalid_keepsSentinel(st, el) ==
    LET key     == getKey(el)
        config  == getFieldConfig(st.fieldset[key])
        synth   == checkCustomValidity(Validity(st.value[el], st.custom[el], config), config)
        message == IF synth # Undefined THEN synth
                   ELSE ValidationMessage(st.value[el], st.custom[el], config)
    IN  IF key \notin DOMAIN st.fieldset THEN st
        ELSE [st EXCEPT !.error = IF st.error[key] = message THEN st.error
                                  ELSE [st.error EXCEPT ![key] = message]]

\* The invalid notification of the control named el, on the element state
\* st = [value, custom, error, fieldset]: reset the sentinel, synthesize the
\* message, store it under the control's field key.
onInvalid(st, el) ==
    LET key     == getKey(el)
        config  == getFieldConfig(st.fieldset[key])
        cleared == IF ValidationMessage(st.value[el], st.custom[el], config) = "valid"
                   THEN "" ELSE st.custom[el]
        synth   == checkCustomValidity(Validity(st.value[el], cleared, config), config)
        message == IF synth # Undefined THEN synth
                   ELSE ValidationMessage(st.value[el], cleared, config)
    IN  IF key \notin DOMAIN st.fieldset THEN st
        ELSE [st EXCEPT !.custom[el] = cleared,
                        !.error = IF st.error[key] = message THEN st.error
                                  ELSE [st.error EXCEPT ![key] = message]]

\* ------------------------------------------------- the constraint registry
\* registry.checkValidity(control): the control is re-evaluated, its invalid
\* notification runs, and its validity after the evaluation is returned.
CheckControl(st, el) == onInvalid(st, el)

ControlValid(st, el) ==
    Valid(Validity(st.value[el], st.custom[el], getFieldConfig(st.fieldset[getKey(el)])))

\* registry.checkValidity(form): every control is evaluated, in document order;
\* true iff every control is valid after the evaluation.
RECURSIVE CheckControls(_, _)
CheckControls(st, els) ==
    IF els = <<>> THEN st
    ELSE CheckControls(CheckControl(st, Head(els)), Tail(els))

CheckForm(st) == CheckControls(st, DocumentOrder)

FormValid(st) == \A el \in Controls : ControlValid(st, el)

\* ------------------------------------------------ the structural directive
\* The reserved field name of a structural submit control.
DraftName == <<"_", "_", "d", "r", "a", "f", "t", "_", "_">>

\* draftUpdate(name): `<list>:insert`; draftUpdate(name, index): `<list>:remove:<index>`
DraftInsert(name) ==
    [name |-> DraftName, value |-> name \o <<":", "i", "n", "s", "e", "r", "t">>]
DraftRemove(name, index) ==
    [name  |-> DraftName,
     value |-> name \o <<":", "r", "e", "m", "o", "v", "e", ":">> \o NumberToString(index)]

\* shouldSkipValidate(submitter): the submitter carries the reserved name.
shouldSkipValidate(submitter) == submitter.name = DraftName

\* A submit control that is no structural action.
SubmitButton == [name |-> <<>>, value |-> <<>>]

\* ------------------------------------------------------ useFieldsetControl
\* The name of the list field, as useFieldset hands it to the controller.
ListField == <<"l">>

\* getFieldProps for a list of n fieldsets: the options `${name}[${index}]`.
ListOptions(n) == [i \in 1..n |-> IndexedName(ListField, i - 1)]

\* What the reduce over the options yields when the names disagree.
Thrown == <<"Inconsistent name found">>

\* const name = options.reduce(...): the name before the last '[' of every
\* option, '' without options.
RECURSIVE ReduceName(_, _)
ReduceName(result, opts) ==
    IF opts = <<>> THEN result
    ELSE LET name == Slice(Head(opts), 0, LastIndexOf(Head(opts), "["))
         IN  IF result # <<>> /\ result # name THEN Thrown
             ELSE ReduceName(name, Tail(opts))

ListName(opts) == ReduceName(<<>>, opts)

\* Date.now(): a clock reading, far above any array length, and not before
\* the readings already in the sequence.
Epoch == MaxOptions + 1
ClockReadings(ks) ==
    {t \in Epoch..(Epoch + MaxTicks) : \A i \in 1..Len(ks) : ks[i] <= t}

\* result[index].options.name: options[key] ?? { name: `${name}[${index}]` }
ResultName(ks, opts, index) ==
    LET key == ks[index + 1]
    IN  IF key < Len(opts) THEN opts[key + 1]
        ELSE IndexedName(ListName(opts), index)

\* The names of the rendered list elements, by position.
ResultNames(ks, opts) == [i \in 1..Len(ks) |-> ResultName(ks, opts, i - 1)]

\* A delete button that also drops the key after the one it stands for.
DeleteKey_dropsTwo(ks, index) == SubSeq(ks, 1, index) \o SubSeq(ks, index + 3, Len(ks))

\* addButton.onClick: setKeys((keys) => keys.concat(Date.now()))
AddKey(ks, now) == Append(ks, now)

\* deleteButton.onClick: [...keys.slice(0, index), ...keys.slice(index + 1)]
DeleteKey(ks, index) == SubSeq(ks, 1, index) \o SubSeq(ks, index + 2, Len(ks))

\* The effect on options.length: keep the keys when the lengths agree, else
\* start over from the positions.
ReconcileKeys(ks, length) == IF Len(ks) = length THEN ks ELSE ArrayKeys(length)

\* The submit controls of the form: an ordinary one, the add button and the
\* delete button of every rendered list element.
Submitters ==
    {SubmitButton, DraftInsert(ListName(options))}
        \cup {DraftRemove(ListName(options), i) : i \in 0..(Len(keys) - 1)}

\* -------------------------------------------------------- useFormValidity
\* A gate that forgets the touched names.
ShouldCheckOnChange_submittedOnly(el) == submitted

\* handleChange: if (ref.current.submitted || ref.current.touched[name])
ShouldCheckOnChange(el) == submitted \/ el \in touched

\* A blur that records nothing.
TouchedAfterBlur_forgets(el) == touched

\* handleBlur: ref.current.touched[event.target.name] = true
TouchedAfterBlur(el) == touched \cup {el}

\* handleSubmit: ref.current.submitted = true
SubmittedAfterSubmit(submitter) == TRUE

ElementState ==
    [value |-> value, custom |-> custom, error |-> errorMessage, fieldset |-> fieldset]

\* The controls on which a handler called setCustomValidity(''): those whose
\* custom message differs between the element states before and after.
Reset(before, after) == {el \in Controls : before.custom[el] # after.custom[el]}

handleBlur(el) ==
    LET st == CheckControl(ElementState, el)
    IN  /\ touched' = TouchedAfterBlur(el)
        /\ custom' = st.custom
        /\ errorMessage' = st.error
        /\ ev' = Event("blur", el, {el}, Reset(ElementState, st), FALSE, FALSE)
        /\ UNCHANGED <<submitted, value, keys, options, fieldset, noBrowserValidate>>

\* The user edits the control named el to hold v; the change event follows.
handleChange(el, v) ==
    LET typed == [ElementState EXCEPT !.value[el] = v]
        check == ShouldCheckOnChange(el)
        st    == IF check THEN CheckControl(typed, el) ELSE typed
    IN  /\ value' = st.value
        /\ custom' = st.custom
        /\ errorMessage' = st.error
        /\ ev' = Event("change", el, IF check THEN {el} ELSE {}, Reset(typed, st), FALSE, FALSE)
        /\ UNCHANGED <<submitted, touched, keys, options, fieldset, noBrowserValidate>>

\* A submit that reaches onSubmit whether or not the check passed.
handleSubmit_alwaysSubmits(submitter) ==
    LET skip == shouldSkipValidate(submitter)
        st   == IF skip THEN ElementState ELSE CheckForm(ElementState)
        stop == ~skip /\ ~FormValid(st)
    IN  /\ submitted' = SubmittedAfterSubmit(submitter)
        /\ custom' = st.custom
        /\ errorMessage' = st.error
        /\ ev' = Event("submit", submitter, IF skip THEN {} ELSE {Form},
                       Reset(ElementState, st), stop, TRUE)
        /\ UNCHANGED <<touched, value, keys, options, fieldset, noBrowserValidate>>

\* A submit that also marks every control as touched.
handleSubmit_touchesAll(submitter) ==
    LET skip == shouldSkipValidate(submitter)
        st   == IF skip THEN ElementState ELSE CheckForm(ElementState)
        stop == ~skip /\ ~FormValid(st)
    IN  /\ submitted' = SubmittedAfterSubmit(submitter)
        /\ touched' = Controls
        /\ custom' = st.custom
        /\ errorMessage' = st.error
        /\ ev' = Event("submit", submitter, IF skip THEN {} ELSE {Form},
                       Reset(ElementState, st), stop, ~stop)
        /\ UNCHANGED <<value, keys, options, fieldset, noBrowserValidate>>

\* A submit that sets the flag only on the branch that reaches onSubmit.
handleSubmit_flagsOnSuccess(submitter) ==
    LET skip == shouldSkipValidate(submitter)
        st   == IF skip THEN ElementState ELSE CheckForm(ElementState)
        stop == ~skip /\ ~FormValid(st)
    IN  /\ submitted' = (submitted \/ ~stop)
        /\ custom' = st.custom
        /\ errorMessage' = st.error
        /\ ev' = Event("submit", submitter, IF skip THEN {} ELSE {Form},
                       Reset(ElementState, st), stop, ~stop)
        /\ UNCHANGED <<touched, value, keys, options, fieldset, noBrowserValidate>>

\* A submit with the operands of && swapped: the form is checked before the
\* submitter is looked at.
handleSubmit_checksFirst(submitter) ==
    LET skip == shouldSkipValidate(submitter)
        st   == CheckForm(ElementState)
        stop == ~FormValid(st) /\ ~skip
    IN  /\ submitted' = SubmittedAfterSubmit(submitter)
        /\ custom' = st.custom
        /\ errorMessage' = st.error
        /\ ev' = Event("submit", submitter, {Form}, Reset(ElementState, st), stop, ~stop)
        /\ UNCHANGED <<touched, value, keys, options, fieldset, noBrowserValidate>>

handleSubmit(submitter) ==
    LET skip == shouldSkipValidate(submitter)
        st   == IF skip THEN ElementState ELSE CheckForm(ElementState)
        stop == ~skip /\ ~FormValid(st)
    IN  /\ submitted' = SubmittedAfterSubmit(submitter)
        /\ custom' = st.custom
        /\ errorMessage' = st.error
        /\ ev' = Event("submit", submitter, IF skip THEN {} ELSE {Form},
                       Reset(ElementState, st), stop, ~stop)
        /\ UNCHANGED <<touched, value, keys, options, fieldset, noBrowserValidate>>

\* The caller sets or clears the custom validity message of a control.
setCustomValidity(el, m) ==
    /\ custom[el] # m
    /\ custom' = [custom EXCEPT ![el] = m]
    /\ ev' = Event("setCustomValidity", el, {}, {}, FALSE, FALSE)
    /\ UNCHANGED <<submitted, touched, value, errorMessage, keys, options, fieldset,
                   noBrowserValidate>>

\* ------------------------------------------------- the list's operations
addButtonClick(now) ==
    /\ Len(keys) < MaxKeys
    /\ keys' = AddKey(keys, now)
    /\ ev' = Event("append", <<>>, {}, {}, TRUE, FALSE)
    /\ UNCHANGED <<submitted, touched, value, custom, errorMessage, options, fieldset,
                   noBrowserValidate>>

deleteButtonClick(index) ==
    /\ keys' = DeleteKey(keys, index)
    /\ ev' = Event("remove", <<index>>, {}, {}, TRUE, FALSE)
    /\ UNCHANGED <<submitted, touched, value, custom, errorMessage, options, fieldset,
                   noBrowserValidate>>

\* The caller renders the controller with an options array of another length;
\* the effect on options.length runs.
reconcile(length) ==
    /\ length # Len(options)
    /\ options' = ListOptions(length)
    /\ keys' = ReconcileKeys(keys, length)
    /\ ev' = Event("reconcile", <<>>, {}, {}, FALSE, FALSE)
    /\ UNCHANGED <<submitted, touched, value, custom, errorMessage, fieldset, noBrowserValidate>>

\* ------------------------------------------ useFieldset: the fieldset effect
\* Object.entries(errorMessage): the field keys in the order of the fieldset.
KeyOrder == <<<<"a">>, <<"b">>>>

\* ref.current.element[key]: the control rendered for a field key.
ElementOf(key) == FieldName(FieldsetName, key)

\* An effect that re-validates every control.
ControlsWithError_all == DocumentOrder

\* The controls the effect re-validates: those the loop finds mounted and
\* with a message in the errorMessage the effect was created with.
ControlsWithError ==
    LET ks == SelectSeq(KeyOrder, LAMBDA k : errorMessage[k] # "")
    IN  [i \in 1..Len(ks) |-> ElementOf(ks[i])]

\* The effect on [fieldset, errorMessage, registry], for a render with the
\* fieldset object f: nothing when f is the object of the render before,
\* else f is stored and the controls with a message are checked again.
fieldsetEffect(f) ==
    LET els == IF f = fieldset THEN <<>> ELSE ControlsWithError
        st  == CheckControls([ElementState EXCEPT !.fieldset = f], els)
    IN  /\ fieldset' = st.fieldset
        /\ custom' = st.custom
        /\ errorMessage' = st.error
        /\ ev' = Event("fieldset", <<>>, {els[i] : i \in 1..Len(els)},
                       Reset(ElementState, st), FALSE, FALSE)
        /\ UNCHANGED <<submitted, touched, value, noBrowserValidate, keys, options>>

\* ------------------------------------------ useFormValidity: noValidate
\* The noValidate prop of the first render: absent, true or false.
Props == {<<>>, <<TRUE>>, <<FALSE>>}

\* useState(noValidate ?? false)
NoValidateInitial(prop) == IF prop = <<>> THEN FALSE ELSE prop[1]

\* The first render is committed and its effects have run.
Mounted == ev.op # "mount"

\* A mount effect that sets nothing.
mountEffect_setsNothing ==
    /\ ~Mounted
    /\ ev' = Event("effect", ev.target, {}, {}, FALSE, FALSE)
    /\ UNCHANGED <<submitted, touched, value, custom, errorMessage, fieldset,
                   noBrowserValidate, keys, options>>

\* useEffect(() => { setNoBrowserValidate(true); }, []): once, after the
\* first render and before React dispatches any event to the handlers.
mountEffect ==
    /\ ~Mounted
    /\ noBrowserValidate' = TRUE
    /\ ev' = Event("effect", ev.target, {}, {}, FALSE, FALSE)
    /\ UNCHANGED <<submitted, touched, value, custom, errorMessage, fieldset, keys, options>>

\* ------------------------------------------------------- the specification
Init ==
    /\ submitted = FALSE
    /\ touched = {}
    /\ value \in [Controls -> Values]
    /\ custom = [el \in Controls |-> ""]
    /\ errorMessage = [k \in Keys |-> ""]
    /\ fieldset \in Fieldsets
    /\ options \in {ListOptions(n) : n \in 0..MaxOptions}
    /\ keys = ArrayKeys(Len(options))
    /\ \E prop \in Props :
          /\ noBrowserValidate = NoValidateInitial(prop)
          /\ ev = Event("mount", prop, {}, {}, FALSE, FALSE)

Next ==
    \/ mountEffect
    \/ Mounted /\ \E el \in Controls : handleBlur(el)
    \/ Mounted /\ \E el \in Controls, v \in Values : handleChange(el, v)
    \/ Mounted /\ \E submitter \in Submitters : handleSubmit(submitter)
    \/ Mounted /\ \E el \in Controls, m \in CustomMessages : setCustomValidity(el, m)
    \/ Mounted /\ \E f \in Fieldsets : fieldsetEffect(f)
    \/ Mounted /\ \E now \in ClockReadings(keys) : addButtonClick(now)
    \/ Mounted /\ \E index \in 0..(Len(keys) - 1) : deleteButtonClick(index)
    \/ Mounted /\ \E length \in 0..MaxOptions : reconcile(length)

Spec == Init /\ [][Next]_vars

\* The form alone: the list keeps the shape it is mounted with.
NextGate ==
    \/ mountEffect
    \/ Mounted /\ \E el \in Controls : handleBlur(el)
    \/ Mounted /\ \E el \in Controls, v \in Values : handleChange(el, v)
    \/ Mounted /\ \E submitter \in Submitters : handleSubmit(submitter)
    \/ Mounted /\ \E el \in Controls, m \in CustomMessages : setCustomValidity(el, m)
    \/ Mounted /\ \E f \in Fieldsets : fieldsetEffect(f)

SpecGate == Init /\ [][NextGate]_vars

\* The list alone: no event reaches the form.
NextList ==
    \/ mountEffect
    \/ Mounted /\ \E now \in ClockReadings(keys) : addButtonClick(now)
    \/ Mounted /\ \E index \in 0..(Len(keys) - 1) : deleteButtonClick(index)
    \/ Mounted /\ \E length \in 0..MaxOptions : reconcile(length)

SpecList == Init /\ [][NextList]_vars

\* The events of the form and of the list together: what a user does to a
\* form that holds a list, with the fieldset and the custom validity as
\* they are at mount.
NextEvents ==
    \/ mountEffect
    \/ Mounted /\ \E el \in Controls : handleBlur(el)
    \/ Mounted /\ \E el \in Controls, v \in Values : handleChange(el, v)
    \/ Mounted /\ \E submitter \in Submitters : handleSubmit(submitter)
    \/ Mounted /\ \E now \in ClockReadings(keys) : addButtonClick(now)
    \/ Mounted /\ \E index \in 0..(Len(keys) - 1) : deleteButtonClick(index)
    \/ Mounted /\ \E length \in 0..MaxOptions : reconcile(length)

SpecEvents == Init /\ [][NextEvents]_vars

\* ------------------------------------------------ the naming functions alone
\* The sequences over S of at most n elements.
SeqsUpTo(S, n) == UNION {[1..m -> S] : m \in 0..n}

\* options.name of the fieldset a control is rendered in: none, a field of
\* the root, a nested fieldset, an element of a list, and mixes of these.
ParentNames ==
    {<<>>, <<"p">>, <<"p", ".", "q">>, IndexedName(<<"l">>, 0),
     IndexedName(<<"p", ".", "l">>, 1), IndexedName(<<"l">>, 0) \o <<".", "q">>}

\* The property names of a fieldset object: any non-empty string.
KeyChars == {"a", "b", "."}
FieldKeys == SeqsUpTo(KeyChars, MaxKeyLen) \ {<<>>}

\* The names of the options handed to useFieldsetControl: `${name}[${index}]`
\* for the name of a list field, the empty name of a root-level key '' too.
ListNames == {<<>>, <<"l">>, <<"m">>}
OptionNames == {IndexedName(n, i) : n \in ListNames, i \in 0..(MaxOptions - 1)}

\* getKey applied to the control getFieldProps names for key under parent.
getKeyOfFieldName(parent, key) ==
    /\ ev' = Call("getKey", <<parent, key>>, getKey(FieldName(parent, key)))
    /\ UNCHANGED <<submitted, touched, value, custom, errorMessage, fieldset,
                   noBrowserValidate, keys, options>>

\* useFieldsetControl rendered over the options named opts: the reduce.
useFieldsetControlName(opts) ==
    /\ ev' = Call("name", opts, ListName(opts))
    /\ UNCHANGED <<submitted, touched, value, custom, errorMessage, fieldset,
                   noBrowserValidate, keys, options>>

InitNames ==
    /\ submitted = FALSE
    /\ touched = {}
    /\ value = [el \in Controls |-> ""]
    /\ custom = [el \in Controls |-> ""]
    /\ errorMessage = [k \in Keys |-> ""]
    /\ fieldset = StrictFieldset
    /\ noBrowserValidate = FALSE
    /\ options = <<>>
    /\ keys = <<>>
    /\ ev = Call("none", <<>>, <<>>)

NextNames ==
    \/ \E parent \in ParentNames, key \in FieldKeys : getKeyOfFieldName(parent, key)
    \/ \E opts \in SeqsUpTo(OptionNames, MaxOptions) : useFieldsetControlName(opts)

SpecNames == InitNames /\ [][NextNames]_vars

\* ------------------------------------------------------------------ claims
\* The validity of the control named el in the state after a step.
ValidAfter(el) ==
    Valid(Validity(value'[el], custom'[el], getFieldConfig(fieldset'[getKey(el)])))

\* The validity of the control named el in the current state.
ValidNow(el) ==
    Valid(Validity(value[el], custom[el], getFieldConfig(fieldset[getKey(el)])))

\* C1: a change event on the control named a checks that control if and only
\* if a is touched or the form is submitted; otherwise nothing is checked and
\* the error messages stay as they were.
C1_ChangeIsGated ==
    [][ev'.op = "change" =>
          LET a    == ev'.target
              open == submitted \/ a \in touched
          IN  /\ open => ev'.checked = {a}
              /\ ~open => ev'.checked = {} /\ errorMessage' = errorMessage
              /\ open => (errorMessage'[getKey(a)] = "" <=> ValidAfter(a))]_vars

\* A change left an untouched control of a pristine form invalid, unchecked
\* and without a message.
C1_Witness ==
    /\ ev.op = "change"
    /\ ~submitted
    /\ touched = {}
    /\ ev.checked = {}
    /\ ~ValidNow(ev.target)
    /\ errorMessage[getKey(ev.target)] = ""

\* C2: a blur event on the control named a adds a to the touched names and
\* checks that one control, whatever the gate state was and whether or not a
\* was touched before; the control's message then tells its validity.
C2_BlurTouchesAndChecks ==
    [][ev'.op = "blur" =>
          LET a == ev'.target
          IN  /\ touched' = touched \cup {a}
              /\ ev'.checked = {a}
              /\ errorMessage'[getKey(a)] = "" <=> ValidAfter(a)]_vars

\* A blur on a control of a pristine form that was never touched before: the
\* control is now the only touched one and its violation has a message.
C2_Witness ==
    /\ ev.op = "blur"
    /\ ~submitted
    /\ touched = {ev.target}
    /\ ~ValidNow(ev.target)
    /\ errorMessage[getKey(ev.target)] # ""

\* C3: a submit by a control that is no structural action checks the whole
\* form, whatever was touched or submitted before; it calls preventDefault
\* and not onSubmit iff the check fails, and onSubmit iff the check passes.
C3_SubmitChecksWholeForm ==
    [][(ev'.op = "submit" /\ ~shouldSkipValidate(ev'.target)) =>
          LET passed == \A el \in Controls : ValidAfter(el)
          IN  /\ ev'.checked = {Form}
              /\ \A el \in Controls : errorMessage'[getKey(el)] = "" <=> ValidAfter(el)
              /\ ev'.prevented <=> ~passed
              /\ ev'.onSubmit <=> passed]_vars

\* The first submit of a form nobody touched found an invalid control: the
\* default is suppressed, onSubmit is not called, the message is there.
C3_Witness ==
    /\ ev.op = "submit"
    /\ ~shouldSkipValidate(ev.target)
    /\ touched = {}
    /\ ev.prevented
    /\ ~ev.onSubmit
    /\ \E el \in Controls : ~ValidNow(el) /\ errorMessage[getKey(el)] # ""

\* C4: a submit by a control that carries the structural directive checks
\* nothing, is never suppressed and always reaches onSubmit, whatever the
\* validity of the controls; no message and no custom validity changes.
C4_StructuralSubmitSkipsCheck ==
    [][(ev'.op = "submit" /\ shouldSkipValidate(ev'.target)) =>
          /\ ev'.checked = {}
          /\ ~ev'.prevented
          /\ ev'.onSubmit
          /\ errorMessage' = errorMessage
          /\ custom' = custom]_vars

\* A structural submit went through while every control was required and
\* empty, and left them without a message.
C4_Witness ==
    /\ ev.op = "submit"
    /\ shouldSkipValidate(ev.target)
    /\ ev.onSubmit
    /\ ~ev.prevented
    /\ \A el \in Controls : value[el] = "" /\ ~ValidNow(el) /\ errorMessage[getKey(el)] = ""

\* C5: a submit by a control that carries the structural directive leaves
\* the submitted flag as it was, so a later change on a control that was
\* never blurred is still not checked.
C5_StructuralSubmitKeepsFlag ==
    [][(ev'.op = "submit" /\ shouldSkipValidate(ev'.target)) => submitted' = submitted]_vars

\* C6: the touched names start empty and only a blur changes them, by adding
\* the blurred name: a change, a submit, an append, a remove and a
\* reconciliation leave them alone, and no name is ever removed.
C6_OnlyBlurTouches ==
    /\ touched = {}
    /\ [][/\ touched \subseteq touched'
          /\ touched' # touched => (ev'.op = "blur" /\ touched' = touched \cup {ev'.target})
          /\ ev'.op \in {"change", "submit", "append", "remove", "reconcile"}
               => touched' = touched]_vars

\* A list element was removed after a control had been blurred, and the
\* control is still touched.
C6_Witness ==
    /\ ev.op = "remove"
    /\ touched # {}
    /\ Len(keys) < Len(options)

\* C7: the submitted flag is false at mount, true after every submit that is
\* no structural action, changed by nothing but a submit, and once true it
\* stays true through every later event.
C7_SubmittedIsTerminal ==
    /\ submitted = FALSE
    /\ [][/\ (ev'.op = "submit" /\ ~shouldSkipValidate(ev'.target)) => submitted'
          /\ submitted => submitted'
          /\ submitted' # submitted => ev'.op = "submit"]_vars

\* A blur handled after a submit that failed: the form is still submitted.
C7_Witness ==
    /\ submitted
    /\ ev.op = "blur"
    /\ \E el \in Controls : ~ValidNow(el)

\* C8: after any appends, removals and reconciliations, the names of the
\* rendered list elements are pairwise distinct.
C8_ElementNamesDistinct ==
    \A i, j \in 1..Len(keys) :
        i # j => ResultNames(keys, options)[i] # ResultNames(keys, options)[j]

\* C9: after any appends and removals, the element rendered at position j of
\* the list named L is named L[j].
C9_ElementNamedByPosition ==
    \A j \in 0..(Len(keys) - 1) :
        ResultName(keys, options, j) = IndexedName(ListName(options), j)

\* C10: a reconciliation to the length M yields M keys and keeps the keys
\* that were there, by position: growth appends, shrinkage drops the tail.
C10_ReconcileKeepsKeys ==
    [][ev'.op = "reconcile" =>
          LET M == Len(options')
          IN  /\ Len(keys') = M
              /\ \A i \in 1..Len(keys) : i <= M => keys'[i] = keys[i]]_vars

\* C11: a click on the delete button of index i, on n keys with 0 <= i < n,
\* leaves the n - 1 other keys, each with its identity, in their order.
C11_RemoveDeletesOneKey ==
    [][ev'.op = "remove" =>
          LET i == ev'.target[1]
              n == Len(keys)
          IN  /\ 0 <= i /\ i < n
              /\ Len(keys') = n - 1
              /\ \A j \in 1..(n - 1) : keys'[j] = IF j <= i THEN keys[j] ELSE keys[j + 1]]_vars

\* The first of three elements was removed: the two survivors, one of them
\* appended by a click, moved down by one position.
C11_Witness ==
    /\ ev.op = "remove"
    /\ ev.target = <<0>>
    /\ Len(keys) = 2
    /\ keys[1] < Epoch
    /\ keys[2] >= Epoch

\* C12: a click on the add button, on n keys, yields n + 1 keys: the first n
\* as they were, the last one a key that was not there, and the new element
\* is named L[n].
C12_AppendAddsNewKey ==
    [][ev'.op = "append" =>
          LET n == Len(keys)
          IN  /\ Len(keys') = n + 1
              /\ SubSeq(keys', 1, n) = keys
              /\ \A j \in 1..n : keys[j] # keys'[n + 1]
              /\ ResultName(keys', options', n) = IndexedName(ListName(options'), n)]_vars

\* C19: after any appends, removals and reconciliations the keys are
\* pairwise distinct, also when two appends read the same clock value.
C19_KeysDistinct ==
    \A i, j \in 1..Len(keys) : i # j => keys[i] # keys[j]

\* The message of the first violated constraint of the control named el, as
\* its value and the fieldset stand: the configured text when there is one,
\* else the platform's; the empty string when nothing is violated.
FirstViolation(v, field) ==
    LET config == getFieldConfig(field)
    IN  IF config.required /\ v = ""
        THEN IF config.message.valueMissing # Undefined
             THEN config.message.valueMissing ELSE "Please fill out this field."
        ELSE IF config.type = "email" /\ v = "not-an-email"
        THEN "Please enter an email address."
        ELSE ""

\* C13: after a blur on a control, the message of its field is the message
\* of the first constraint its value violates, and "" when it violates none;
\* so a message of an earlier violation is gone once the control is valid.
C13_BlurShowsCurrentValidity ==
    [][ev'.op = "blur" =>
          LET el == ev'.target
          IN  errorMessage'[getKey(el)] = FirstViolation(value'[el], fieldset'[getKey(el)])]_vars

C13_Witness ==
    /\ ev.op = "blur"
    /\ fieldset[getKey(ev.target)] = "email, required"
    /\ value[ev.target] = "a@b.com"
    /\ errorMessage[getKey(ev.target)] = ""
    /\ \E k \in Keys : errorMessage[k] # ""

\* registry.checkValidity on a control or on the form.
Check(st, target) == IF target = Form THEN CheckForm(st) ELSE CheckControl(st, target)

\* C14: in every state, for the form and for every control, a second
\* checkValidity directly after a first one leaves the messages as the
\* first one left them.
C14_CheckTwiceSameMessages ==
    \A target \in Controls \cup {Form} :
        LET once == Check(ElementState, target)
        IN  Check(once, target).error = once.error

C14_Witness ==
    /\ ev.op = "setCustomValidity"
    /\ custom[ev.target] = "valid"
    /\ Check(ElementState, ev.target).error # errorMessage
    /\ Check(ElementState, Form).error # Check(ElementState, ev.target).error

\* C15: a check of a control whose validation message is the sentinel "valid"
\* resets its custom validity to "" and surfaces the message of its fresh
\* validity, never the sentinel.
C15_SentinelIsReset ==
    [][\A el \in Controls :
          /\ (el \in ev'.checked \/ Form \in ev'.checked)
          /\ ValidationMessage(value'[el], custom[el],
                               getFieldConfig(fieldset'[getKey(el)])) = "valid"
          => /\ custom'[el] = ""
             /\ el \in ev'.reset
             /\ errorMessage'[getKey(el)] # "valid"
             /\ errorMessage'[getKey(el)] = FirstViolation(value'[el], fieldset'[getKey(el)])]_vars

C15_Witness ==
    /\ ev.op = "blur"
    /\ ev.target \in ev.reset
    /\ custom[ev.target] = ""
    /\ errorMessage[getKey(ev.target)] = "Please enter an email address."

\* C16: until the mount effect has run, noValidate is the value the caller
\* passed, false when the caller passed none; from then on it is true,
\* whatever events follow.
C16_NoValidateForcedAfterMount ==
    /\ ev.op = "mount" =>
          noBrowserValidate = (IF ev.target = <<>> THEN FALSE ELSE ev.target[1])
    /\ ev.op # "mount" => noBrowserValidate = TRUE

C16_Witness ==
    /\ ev.op = "effect"
    /\ ev.target = <<FALSE>>
    /\ noBrowserValidate = TRUE

\* C20: when the fieldset object is replaced, the effect checks exactly the
\* controls whose field has a non-empty message; when it is the same object,
\* the effect checks nothing and changes nothing.
C20_ReplacedFieldsetRechecksErrors ==
    [][ev'.op = "fieldset" =>
          IF fieldset' # fieldset
          THEN ev'.checked = {ElementOf(k) : k \in {k \in Keys : errorMessage[k] # ""}}
          ELSE /\ ev'.checked = {}
               /\ errorMessage' = errorMessage
               /\ custom' = custom]_vars

C20_Witness ==
    /\ ev.op = "fieldset"
    /\ fieldset = LenientFieldset
    /\ ev.checked = {ElementOf(<<"a">>)}
    /\ errorMessage = [k \in Keys |-> ""]

\* The list Address of an option name: the name without its trailing [index].
ListAddress(name) ==
    CHOOSE n \in ListNames : \E i \in 0..(MaxOptions - 1) : name = IndexedName(n, i)

ListAddresses(opts) == {ListAddress(opts[i]) : i \in 1..Len(opts)}

\* C17: a controller set up over options whose names have different list
\* Addresses throws; set up over names of one list Address it has that
\* Address as its name.
C17_InconsistentNamesThrow ==
    ev.op = "name" =>
        /\ Cardinality(ListAddresses(ev.target)) > 1 => ev.result = Thrown
        /\ Cardinality(ListAddresses(ev.target)) = 1 => ev.result \in ListAddresses(ev.target)

\* C18: getKey of the name getFieldProps gives the control of a field key
\* under any parent name is that field key.
C18_GetKeyRecoversKey ==
    ev.op = "getKey" => ev.result = ev.target[2]

====
